---- MODULE Spec2Model ----
(***************************************************************************)
(* Model of the Outlook 365 mail monitor / SMTP forwarder:                 *)
(*   src/mail_reader.py  O365MailReader (token, cursor file, Graph query)  *)
(*   src/main.py         forward_message, check_for_new_emails, main       *)
(*                                                                         *)
(* The program is one sequential process; pc is its position.  The        *)
(* environment is the mailbox (messages arrive), the network (every call   *)
(* may fail), the disk (open/write/read may fail), the operator (Ctrl+C)   *)
(* and the host (the process may be killed and started again).             *)
(*                                                                         *)
(* Receipt times: the Graph server stamps a message when it is received,   *)
(* so arrivals carry non-decreasing times.  It keeps a finer resolution    *)
(* than the receivedDateTime string it returns: a message is               *)
(* [ts, sub], the string carries ts only, and the server evaluates         *)
(* "receivedDateTime gt T" on ts and sub.  A message with ts = T and       *)
(* sub > 0 is therefore returned although its returned timestamp is not    *)
(* greater than T: the timestamp collision mail_reader.py:214 filters.     *)
(***************************************************************************)
EXTENDS Integers, Sequences, FiniteSets

\* ---------------------------------------------------------------- bounds
MaxMsgs == 4      \* messages that ever arrive in the inbox
MaxTs == 2        \* receivedDateTime values 1..MaxTs
MaxSub == 1       \* sub-resolution part of a receipt time, 0..MaxSub
MaxRuns == 2      \* run_count saturates here
MaxCount == 1     \* new_emails_count saturates here
Limit == 2        \* stands for limit=50 of main.py:100

SubRes == MaxSub + 1

VARIABLES
    cfg,              \* module-level configuration of main.py (lines 43-54)
    inbox,            \* the mailbox folder on the server: set of messages
    file,             \* the tracking file .last_email.json
    access_token,     \* reader.access_token is set
    pc,               \* position of the process
    exit,             \* "running", or how the process ended
    last,             \* (last_timestamp, last_message_id) of get_new_messages
    messages,         \* the list get_new_messages built / check_for_new_emails walks
    i,                \* index of msg in "for msg in messages"
    run_count,        \* main.run_count
    new_emails_count, \* main.new_emails_count
    reported,         \* the counters were printed (main.py:161-163)
    \* history variables, read by the properties only
    response,         \* the value list of the last query response
    batch,            \* what get_new_messages returned in this cycle
    attempts,         \* ids handed to forward_message in this cycle, in order
    failed,           \* ids whose forward failed in this cycle
    net,              \* network calls made for the current msg of the loop
    saved,            \* outcome of this cycle's cursor save
    prevFile,         \* the tracking file as it was when this cycle's save began
    hiTs,             \* newest last_received_datetime ever persisted (0: none)
    firstLate,        \* first id that arrived after a cursor had been written (0: none)
    returned,         \* ids returned as new by earlier cycles of a fault-free history
    clean             \* no call has failed so far and the process never stopped

vars == <<cfg, inbox, file, access_token, pc, exit, last, messages, i,
          run_count, new_emails_count, reported, response, batch, attempts,
          failed, net, saved, prevFile, hiTs, firstLate, returned, clean>>

cycleHist == <<response, batch, attempts, failed, net, saved, prevFile>>

\* ---------------------------------------------------------------- data
Ids == 1..MaxMsgs
Msg == [id : Ids, ts : 1..MaxTs, sub : 0..MaxSub]

NoCursor == [ts |-> 0, id |-> 0]
Absent == [st |-> "absent", ts |-> 0, id |-> 0]
Corrupt == [st |-> "corrupt", ts |-> 0, id |-> 0]
NoNet == [att |-> "none", fetch |-> "none", smtp |-> "none", conns |-> 0, sends |-> 0]

\* forwarding fully configured, or one of the three conditions of
\* main.py:66 missing; continuous loop or single pass
Configs ==
    {c \in [forward : BOOLEAN, host : BOOLEAN, rcpt : BOOLEAN, continuous : BOOLEAN] :
        Cardinality({f \in {"forward", "host", "rcpt"} : ~c[f]}) <= 1}

Precise(m) == m.ts * SubRes + m.sub
Key(m) == Precise(m) * (MaxMsgs + 1) + m.id

IdsOf(s) == {s[k].id : k \in 1..Len(s)}
IdSeq(s) == [k \in 1..Len(s) |-> s[k].id]
Max(a, b) == IF a >= b THEN a ELSE b
Sat(n, cap) == IF n >= cap THEN cap ELSE n

\* "$orderby receivedDateTime desc", "$top n": the n newest of S, newest first
RECURSIVE Newest(_, _)
Newest(S, n) ==
    IF n = 0 \/ S = {} THEN <<>>
    ELSE LET m == CHOOSE x \in S : \A y \in S : Key(y) <= Key(x)
         IN <<m>> \o Newest(S \ {m}, n - 1)

\* "$filter receivedDateTime gt last_timestamp", set only when last_timestamp
FilteredNone(box, since) == box
Filtered(box, since) ==
    IF since # 0 THEN {m \in box : Precise(m) > since * SubRes} ELSE box

ServerQuery(box, since, n) == Newest(Filtered(box, since), n)

\* messages = [msg for msg in messages if msg.get("id") != last_message_id]
DropLastNone(s, lastId) == s
DropLast(s, lastId) ==
    IF lastId # 0 /\ s # <<>> THEN SelectSeq(s, LAMBDA m : m.id # lastId) ELSE s

\* the record save_last_email_timestamp(messages[0]) writes
CursorOfOldest(s) == [st |-> "valid", ts |-> s[Len(s)].ts, id |-> s[Len(s)].id]
CursorOf(s) == [st |-> "valid", ts |-> s[1].ts, id |-> s[1].id]

\* "if not ENABLE_SMTP_FORWARD or not SMTP_HOST or not recipients: return"
ForwardingOnIgnoresHost(c) == c.forward /\ c.rcpt
ForwardingOn(c) == c.forward /\ c.host /\ c.rcpt

\* ---------------------------------------------------------------- initial state
\* main.py:140-142 and O365MailReader.__init__: no token, counters 0; the
\* tracking file does not exist before the first run.
Init ==
    /\ cfg \in Configs
    /\ inbox = {}
    /\ file = Absent
    /\ access_token = FALSE
    /\ pc = "loop"
    /\ exit = "running"
    /\ last = NoCursor
    /\ messages = <<>>
    /\ i = 0
    /\ run_count = 0
    /\ new_emails_count = 0
    /\ reported = FALSE
    /\ response = <<>>
    /\ batch = <<>>
    /\ attempts = <<>>
    /\ failed = {}
    /\ net = NoNet
    /\ saved = "none"
    /\ prevFile = Absent
    /\ hiTs = 0
    /\ firstLate = 0
    /\ returned = {}
    /\ clean = TRUE

Running == exit = "running"

\* ---------------------------------------------------------------- environment
\* A message is received by the server: a new id, a receipt time not before
\* any earlier one.  The program looks at the mailbox in Query only, so an
\* arrival is taken at the first point where the program can observe it.
Arrive ==
    /\ Running /\ pc = "query"
    /\ Cardinality(inbox) < MaxMsgs
    /\ \E t \in 1..MaxTs, s \in 0..MaxSub :
         LET m == [id |-> Cardinality(inbox) + 1, ts |-> t, sub |-> s] IN
         /\ \A x \in inbox : Precise(x) <= Precise(m)
         /\ inbox' = inbox \cup {m}
         /\ firstLate' = IF hiTs # 0 /\ firstLate = 0 THEN m.id ELSE firstLate
    /\ UNCHANGED <<cfg, file, access_token, pc, exit, last, messages, i,
                   run_count, new_emails_count, reported, cycleHist, hiTs,
                   clean, returned>>

\* ---------------------------------------------------------------- error paths
\* check_for_new_emails: "except Exception as e: print; return []"
OnCycleErrorFatal ==
    /\ pc' = pc
    /\ messages' = <<>>
    /\ i' = 0
    /\ exit' = "exit1"
OnCycleError ==
    /\ pc' = "ret"
    /\ messages' = <<>>
    /\ i' = 0
    /\ exit' = exit

\* forward_message: "except Exception as ...: print(...)" then return
OnForwardErrorGoesOn == pc' = "smtp" /\ UNCHANGED <<messages, i, exit>>
OnForwardErrorAborts == OnCycleError
OnForwardError ==
    /\ pc' = "process"
    /\ UNCHANGED <<messages, i, exit>>

\* check_for_new_emails: "except Exception: print('Has attachments: Yes')"
OnAttachErrorAborts == OnCycleError
OnAttachError ==
    /\ pc' = "forward"
    /\ UNCHANGED <<messages, i, exit>>

\* the locals of a cycle are gone once check_for_new_emails has returned
CycleOver ==
    /\ last' = NoCursor
    /\ messages' = <<>>
    /\ i' = 0
    /\ response' = <<>>
    /\ batch' = <<>>
    /\ attempts' = <<>>
    /\ failed' = {}
    /\ net' = NoNet
    /\ saved' = "none"
    /\ prevFile' = Absent

\* ---------------------------------------------------------------- main loop
\* main.py:145-146  while True: run_count += 1; then check_for_new_emails
MainLoop ==
    /\ Running /\ pc = "loop"
    /\ run_count' = Sat(run_count + 1, MaxRuns)
    /\ pc' = "auth"
    /\ UNCHANGED <<cfg, inbox, file, access_token, exit, last, messages, i,
                   new_emails_count, reported, cycleHist, hiTs, firstLate, returned,
                   clean>>

\* main.py:96  "if not reader.access_token" is false: the token is reused
TokenHeld ==
    /\ Running /\ pc = "auth"
    /\ access_token
    /\ pc' = "load"
    /\ UNCHANGED <<cfg, inbox, file, access_token, exit, last, messages, i,
                   run_count, new_emails_count, reported, cycleHist, hiTs,
                   firstLate, returned, clean>>

\* main.py:96-97 and get_access_token: the exchange succeeds and sets the
\* token, or raises (RequestException, or no token in the payload) with
\* access_token still unset.
ObtainToken ==
    /\ Running /\ pc = "auth"
    /\ ~access_token
    /\ \E ok \in BOOLEAN :
         IF ok
         THEN /\ access_token' = TRUE
              /\ pc' = "load"
              /\ UNCHANGED <<messages, i, exit, clean>>
         ELSE /\ access_token' = FALSE
              /\ OnCycleError
              /\ clean' = FALSE
    /\ UNCHANGED <<cfg, inbox, file, last, run_count, new_emails_count,
                   reported, cycleHist, hiTs, firstLate, returned>>

\* load_last_email_timestamp: (None, None) when the file does not exist or
\* cannot be read or parsed, else the stored pair.
\* 134-136: JSONDecodeError/IOError is caught, a warning printed and
\* (None, None) returned to get_new_messages, which goes on to the query.
OnLoadErrorAborts == last' = NoCursor /\ OnCycleError
OnLoadError ==
    /\ last' = NoCursor
    /\ pc' = "query"
    /\ UNCHANGED <<messages, i, exit>>

LoadCursor ==
    /\ Running /\ pc = "load"
    /\ \E readable \in BOOLEAN :
         IF file.st = "absent"
         THEN /\ last' = NoCursor
              /\ pc' = "query"
              /\ UNCHANGED <<messages, i, exit, clean>>
         ELSE IF file.st = "valid" /\ readable
         THEN /\ last' = [ts |-> file.ts, id |-> file.id]
              /\ pc' = "query"
              /\ UNCHANGED <<messages, i, exit, clean>>
         ELSE /\ OnLoadError
              /\ clean' = FALSE
    /\ UNCHANGED <<cfg, inbox, file, access_token,
                   run_count, new_emails_count, reported, cycleHist, hiTs,
                   firstLate, returned>>

\* get_new_messages 218-227: "if messages:" (the filtered list) save the
\* cursor, else return the empty list
AfterQueryChecksResponse(resp, msgs) == IF resp # <<>> THEN "save_open" ELSE "process"
AfterQuery(resp, msgs) == IF msgs # <<>> THEN "save_open" ELSE "process"

\* get_new_messages 229-233: a failed request is re-raised; the token the
\* reader holds is left as it is
TokenDroppedOnApiError == FALSE
TokenOnApiError == access_token

\* get_new_messages 208-233: the request; on success the id filter, then
\* "if messages:" the cursor save, else return the empty list.
Query ==
    /\ Running /\ pc = "query"
    /\ \E ok \in BOOLEAN :
         IF ok
         THEN LET resp == ServerQuery(inbox, last.ts, Limit)
                  msgs == DropLast(resp, last.id)
              IN /\ response' = resp
                 /\ messages' = msgs
                 /\ batch' = msgs
                 /\ pc' = AfterQuery(resp, msgs)
                 /\ UNCHANGED <<i, exit, clean, access_token>>
         ELSE /\ OnCycleError
              /\ access_token' = TokenOnApiError
              /\ clean' = FALSE
              /\ UNCHANGED <<response, batch>>
    /\ UNCHANGED <<cfg, inbox, file, last, run_count,
                   new_emails_count, reported, attempts, failed, net, saved,
                   prevFile, hiTs, firstLate, returned>>

\* save_last_email_timestamp 154: open(tracking_file, 'w') truncates the
\* file in place, or raises IOError (caught at 160: warning, file untouched).
SaveOpen ==
    /\ Running /\ pc = "save_open"
    /\ prevFile' = file
    /\ \E ok \in BOOLEAN :
         IF ok
         THEN /\ file' = Corrupt
              /\ pc' = "save_dump"
              /\ UNCHANGED <<saved, clean>>
         ELSE /\ file' = file
              /\ pc' = "process"
              /\ saved' = "failed"
              /\ clean' = FALSE
    /\ UNCHANGED <<cfg, inbox, access_token, exit, last, messages, i,
                   run_count, new_emails_count, reported, response, batch,
                   attempts, failed, net, hiTs, firstLate, returned>>

\* save_last_email_timestamp 155: json.dump writes the record of
\* messages[0], or raises IOError part-way (caught at 160: warning), which
\* leaves the truncated file.
SaveDump ==
    /\ Running /\ pc = "save_dump"
    /\ \E ok \in BOOLEAN :
         IF ok
         THEN /\ file' = CursorOf(messages)
              /\ saved' = "ok"
              /\ hiTs' = Max(hiTs, messages[1].ts)
              /\ clean' = clean
         ELSE /\ file' = file
              /\ saved' = "failed"
              /\ hiTs' = hiTs
              /\ clean' = FALSE
    /\ pc' = "process"
    /\ UNCHANGED <<cfg, inbox, access_token, exit, last, messages, i,
                   run_count, new_emails_count, reported, response, batch,
                   attempts, failed, net, prevFile, firstLate, returned>>

\* check_for_new_emails 103: "for msg in messages" walks the whole list
\* get_new_messages returned, on a first run as on any other
LoopListSkipsFirstRun == IF last.ts = 0 THEN <<>> ELSE messages
LoopList == messages

\* check_for_new_emails 103-113: next msg of the loop and its hasAttachments
\* field (read from the response), or the loop is over: return messages.
Process ==
    /\ Running /\ pc = "process"
    /\ IF i < Len(LoopList)
       THEN /\ i' = i + 1
            /\ \E has_attachments \in BOOLEAN :
                 pc' = IF has_attachments THEN "attach" ELSE "forward"
       ELSE /\ i' = i
            /\ pc' = "ret"
    /\ net' = NoNet
    /\ UNCHANGED <<cfg, inbox, file, access_token, exit, last, messages,
                   run_count, new_emails_count, reported, response, batch,
                   attempts, failed, saved, prevFile, hiTs, firstLate, returned, clean>>

\* check_for_new_emails 114-121: reader.get_attachments, any exception
\* caught and replaced by the generic indicator.
ListAttachments ==
    /\ Running /\ pc = "attach"
    /\ \E ok \in BOOLEAN :
         IF ok
         THEN /\ net' = [net EXCEPT !.att = "ok"]
              /\ pc' = "forward"
              /\ UNCHANGED <<messages, i, exit>>
         ELSE /\ net' = [net EXCEPT !.att = "fail"]
              /\ OnAttachError
    /\ UNCHANGED <<cfg, inbox, file, access_token, last, run_count,
                   new_emails_count, reported, response, batch, attempts,
                   failed, saved, prevFile, hiTs, firstLate, returned, clean>>

\* forward_message 63-71: called with msg; returns at once unless
\* forwarding is enabled with a host and recipients.
ForwardMessage ==
    /\ Running /\ pc = "forward"
    /\ attempts' = Append(attempts, messages[i].id)
    /\ pc' = IF ForwardingOn(cfg) THEN "mime" ELSE "process"
    /\ UNCHANGED <<cfg, inbox, file, access_token, exit, last, messages, i,
                   run_count, new_emails_count, reported, response, batch,
                   failed, net, saved, prevFile, hiTs, firstLate, returned, clean>>

\* forward_message 74-78: reader.get_message_mime(message_id)
FetchMime ==
    /\ Running /\ pc = "mime"
    /\ \E ok \in BOOLEAN :
         IF ok
         THEN /\ net' = [net EXCEPT !.fetch = "ok"]
              /\ pc' = "smtp"
              /\ UNCHANGED <<messages, i, exit, failed>>
         ELSE /\ net' = [net EXCEPT !.fetch = "fail"]
              /\ failed' = failed \cup {messages[i].id}
              /\ OnForwardError
    /\ UNCHANGED <<cfg, inbox, file, access_token, last, run_count,
                   new_emails_count, reported, response, batch, attempts,
                   saved, prevFile, hiTs, firstLate, returned, clean>>

\* forward_message 80-89: one SMTP session; it fails at connect, starttls,
\* login or sendmail, or submits the message.
SmtpOutcomes == {"ok", "connect", "tls", "auth", "submit"}
SmtpSession ==
    /\ Running /\ pc = "smtp"
    /\ \E out \in SmtpOutcomes :
         /\ net' = [net EXCEPT !.smtp = out,
                               !.conns = @ + 1,
                               !.sends = IF out \in {"ok", "submit"} THEN @ + 1 ELSE @]
         /\ IF out = "ok"
            THEN /\ pc' = "process"
                 /\ UNCHANGED <<messages, i, exit, failed>>
            ELSE /\ failed' = failed \cup {messages[i].id}
                 /\ OnForwardError
    /\ UNCHANGED <<cfg, inbox, file, access_token, last, run_count,
                   new_emails_count, reported, response, batch, attempts,
                   saved, prevFile, hiTs, firstLate, returned, clean>>

\* main.py:149-158: check_for_new_emails returned messages; count them;
\* single pass breaks out of the loop and returns 0, else sleep.
AfterCycleAlwaysWaits == pc' = "sleep" /\ exit' = exit
AfterCycle ==
    IF cfg.continuous
    THEN /\ pc' = "sleep"
         /\ exit' = exit
    ELSE /\ pc' = pc
         /\ exit' = "exit0"

Return ==
    /\ Running /\ pc = "ret"
    /\ new_emails_count' = Sat(new_emails_count + Len(messages), MaxCount)
    /\ AfterCycle
    /\ CycleOver
    /\ returned' = IF clean THEN returned \cup IdsOf(batch) ELSE {}
    /\ UNCHANGED <<cfg, inbox, file, access_token, run_count, reported, hiTs,
                   firstLate, clean>>

\* main.py:158 time.sleep(LOOP_DELAY_SECONDS) is over
Sleep ==
    /\ Running /\ pc = "sleep"
    /\ pc' = "loop"
    /\ UNCHANGED <<cfg, inbox, file, access_token, exit, last, messages, i,
                   run_count, new_emails_count, reported, cycleHist, hiTs,
                   firstLate, returned, clean>>

\* main.py:160-163, 169: Ctrl+C raises KeyboardInterrupt where the process
\* is; it is no Exception, so no handler of check_for_new_emails or
\* forward_message catches it; main prints the counters and returns 0.
Interrupt ==
    /\ Running
    /\ reported' = TRUE
    /\ exit' = "exit0"
    /\ clean' = FALSE
    /\ UNCHANGED <<cfg, inbox, file, access_token, pc, last, messages, i,
                   run_count, new_emails_count, cycleHist, hiTs, firstLate, returned>>

\* the process is killed while it saves the cursor (a kill at any other
\* point leaves the disk as Interrupt does)
Kill ==
    /\ Running /\ pc \in {"save_open", "save_dump"}
    /\ exit' = "killed"
    /\ clean' = FALSE
    /\ UNCHANGED <<cfg, inbox, file, access_token, pc, last, messages, i,
                   run_count, new_emails_count, reported, cycleHist, hiTs,
                   firstLate, returned>>

\* the program is started again: main.py:140-142 on the same disk and mailbox
Restart ==
    /\ ~Running
    /\ exit' = "running"
    /\ pc' = "loop"
    /\ access_token' = FALSE
    /\ run_count' = 0
    /\ new_emails_count' = 0
    /\ reported' = FALSE
    /\ CycleOver
    /\ returned' = IF clean THEN returned ELSE {}
    /\ UNCHANGED <<cfg, inbox, file, hiTs, firstLate, clean>>

Next ==
    \/ Arrive
    \/ MainLoop
    \/ TokenHeld
    \/ ObtainToken
    \/ LoadCursor
    \/ Query
    \/ SaveOpen
    \/ SaveDump
    \/ Process
    \/ ListAttachments
    \/ ForwardMessage
    \/ FetchMime
    \/ SmtpSession
    \/ Return
    \/ Sleep
    \/ Interrupt
    \/ Kill
    \/ Restart

Spec == Init /\ [][Next]_vars

\* ================================================================ properties

TypeOK ==
    /\ cfg \in Configs
    /\ inbox \subseteq Msg
    /\ file.st \in {"absent", "corrupt", "valid"}
    /\ access_token \in BOOLEAN
    /\ exit \in {"running", "exit0", "exit1", "killed"}
    /\ i \in 0..Limit
    /\ run_count \in 0..MaxRuns
    /\ new_emails_count \in 0..MaxCount
    /\ Len(messages) <= Limit
    /\ returned \subseteq Ids

StoredPrecise == file.ts * SubRes
LoadedPrecise == last.ts * SubRes
MsgOf(id) == CHOOSE m \in inbox : m.id = id
AttemptedIds == {attempts[k] : k \in 1..Len(attempts)}

\* ---------------------------------------------------------------- C1
\* C1: the persisted last_received_datetime never goes back: whenever the
\* tracking file holds a cursor, its timestamp is at least every timestamp
\* persisted before (hiTs is raised in the same step as the write, so the
\* invariant compares each write with all earlier ones).
C1_MonotonicCursor == file.st = "valid" => file.ts >= hiTs

\* a cursor write replaced an older valid cursor by a strictly newer one
C1_Witness ==
    /\ saved = "ok"
    /\ prevFile.st = "valid"
    /\ file.st = "valid"
    /\ file.ts > prevFile.ts

\* ---------------------------------------------------------------- C2
\* C2: at-least-once forwarding, in the form a finite run refutes.  In
\* continuous mode with forwarding enabled, no call failed and no stop so
\* far (queries succeed, cycles keep running), at the end of a
\* cycle that loaded a cursor: every message that arrived after a cursor had
\* been written, has a receipt time of its own, and was pending for this
\* cycle's query (after the loaded cursor, not the cursor message) has been
\* handed to forward_message in this cycle or is still after the stored
\* cursor.  A message the cursor has passed is never returned again (C1).
C2_AtLeastOnce ==
    ( /\ pc = "ret" /\ clean /\ last.ts # 0
      /\ cfg.continuous /\ cfg.forward /\ cfg.host /\ cfg.rcpt )
    => \A m \in inbox :
         ( /\ firstLate # 0
           /\ m.id >= firstLate
           /\ \A x \in inbox \ {m} : Precise(x) # Precise(m)
           /\ Precise(m) > LoadedPrecise
           /\ m.id # last.id )
         => (m.id \in AttemptedIds \/ Precise(m) > StoredPrecise)

\* ---------------------------------------------------------------- C3
\* C3: when check_for_new_emails returns after some forward of the batch
\* failed (at the raw fetch or in the SMTP session), every message of the
\* batch has been handed to forward_message, in order, and the cursor save
\* was made; where it succeeded the file holds the batch's newest message.
C3_ForwardIsolation ==
    (pc = "ret" /\ failed # {})
    => /\ attempts = IdSeq(batch)
       /\ saved # "none"
       /\ (saved = "ok" => file = CursorOf(batch))

\* the forward of the first message of a batch of two failed, the second
\* was still attempted and the cursor is the first message
C3_Witness ==
    /\ pc = "ret"
    /\ Len(batch) = 2
    /\ failed = {batch[1].id}
    /\ attempts = IdSeq(batch)
    /\ file = CursorOf(batch)

\* ---------------------------------------------------------------- C4
\* C4 as stated: only messages that arrived after the first cursor had been
\* written are ever handed to forward_message (so nothing a cursor-less
\* cycle returns is).
C4_FirstRunForwardsNothing ==
    \A k \in 1..Len(attempts) : firstLate # 0 /\ attempts[k] >= firstLate

\* C4 as amended: a cycle that loaded no cursor hands, by its end, every
\* message of the unfiltered response to forward_message, in order; a cycle
\* that loaded a cursor hands over only messages the server places after
\* the loaded timestamp and other than the cursor message.
C4_FirstRunForwardsRecent ==
    /\ (pc = "ret" /\ last.ts = 0) => attempts = IdSeq(response)
    /\ last.ts # 0 =>
         \A k \in 1..Len(attempts) :
            /\ Precise(MsgOf(attempts[k])) > LoadedPrecise
            /\ attempts[k] # last.id

\* a first run (no tracking file) returned Limit backlog messages and each
\* was handed to forward_message
C4_Witness ==
    /\ pc = "ret"
    /\ last.ts = 0
    /\ prevFile.st = "absent"
    /\ saved = "ok"
    /\ Len(response) = Limit
    /\ attempts = IdSeq(response)

\* ---------------------------------------------------------------- C5
\* C5: the message whose id is the loaded last_message_id is in no list
\* get_new_messages returns, is not handed to forward_message, and is not
\* the cursor the cycle writes.
C5_CollisionFiltering ==
    last.id # 0
    => /\ last.id \notin IdsOf(batch)
       /\ last.id \notin IdsOf(messages)
       /\ last.id \notin AttemptedIds
       /\ (saved = "ok" => file.id # last.id)

\* the server returned the cursor message although its returned timestamp
\* is not greater than the cursor's, and the cycle went on without it
C5_Witness ==
    /\ pc = "process"
    /\ last.id # 0
    /\ \E k \in 1..Len(response) :
         response[k].id = last.id /\ response[k].ts <= last.ts
    /\ Len(response) = 2
    /\ Len(batch) = 1

\* ---------------------------------------------------------------- C6
\* C6: a process killed during a cursor save leaves the previous valid
\* cursor or the new one in the file.
C6_CrashAtomicSave ==
    (exit = "killed" /\ prevFile.st = "valid")
    => (file = prevFile \/ file = CursorOf(messages))

\* ---------------------------------------------------------------- C7
\* C7: with forwarding disabled, or no relay host, or no recipient,
\* forward_message makes no raw-message fetch and opens no SMTP connection,
\* and no forward is recorded as failed.
C7_DisabledForwardNoOp ==
    (~cfg.forward \/ ~cfg.host \/ ~cfg.rcpt)
    => /\ net.fetch = "none"
       /\ net.smtp = "none"
       /\ net.conns = 0
       /\ net.sends = 0
       /\ failed = {}
       /\ pc \notin {"mime", "smtp"}

\* forward_message was called for a whole batch with no relay host set
C7_Witness ==
    /\ cfg.forward /\ cfg.rcpt /\ ~cfg.host
    /\ pc = "ret"
    /\ Len(attempts) = 2

\* ---------------------------------------------------------------- C8
\* C8: in continuous mode the process stops only by Ctrl+C (exit code 0,
\* counters printed) or by being killed; a failed token exchange or query
\* ends the cycle at the return of check_for_new_emails, from where main
\* sleeps and starts the next cycle.
C8_LoopNeverGivesUp ==
    [][ /\ (cfg.continuous /\ exit = "running" /\ exit' # "running")
           => (exit' = "killed" \/ (exit' = "exit0" /\ reported'))
        /\ (cfg.continuous /\ exit = "running" /\ exit' = "running")
           => /\ (pc = "auth" /\ pc' # pc) => pc' \in {"load", "ret"}
              /\ (pc = "query" /\ pc' # pc) => pc' \in {"save_open", "process", "ret"}
              /\ (pc = "ret" /\ pc' # pc) => pc' = "sleep"
              /\ (pc = "sleep" /\ pc' # pc) => pc' = "loop"
              /\ (pc = "loop" /\ pc' # pc) => pc' = "auth"
      ]_vars

\* a second cycle of the same run starts with no token held: the token
\* exchange of the first cycle failed and the loop went on
C8_Witness ==
    /\ cfg.continuous
    /\ exit = "running"
    /\ run_count = 2
    /\ pc = "auth"
    /\ ~access_token

\* ---------------------------------------------------------------- C9
\* C9: after Ctrl+C the process has ended with exit code 0 and printed the
\* counters, and every message of the batch in flight has been handed to
\* forward_message.
C9_GracefulCancellation ==
    (exit # "running" /\ reported)
    => (exit = "exit0" /\ attempts = IdSeq(batch))

\* ---------------------------------------------------------------- C10
\* C10: when the cursor save of a cycle failed, the cycle still hands the
\* whole batch to forward_message and the file keeps the cursor it held
\* before (so the next cycle's query is this cycle's query).
C10_SaveFailureKeepsCursor ==
    (pc = "ret" /\ saved = "failed")
    => /\ attempts = IdSeq(batch)
       /\ (prevFile.st = "valid" => file = prevFile)

\* ---------------------------------------------------------------- C11
\* C11: the tracking file changes only in the save of a cycle whose query
\* succeeded with a non-empty list left after the id filter; a cycle whose
\* query failed or whose filtered list is empty never touches it.
C11_CursorWrittenOnlyOnNewMessages ==
    [][ file' # file
        => /\ pc \in {"save_open", "save_dump"}
           /\ batch # <<>>
           /\ messages = batch
           /\ last.id \notin IdsOf(batch)
      ]_vars

\* the server returned only the cursor message (a tie), the filtered list
\* is empty, and the cycle ended with the cursor as it was loaded
C11_Witness ==
    /\ pc = "ret"
    /\ last.id # 0
    /\ IdsOf(response) = {last.id}
    /\ batch = <<>>
    /\ saved = "none"
    /\ file = [st |-> "valid", ts |-> last.ts, id |-> last.id]

\* ---------------------------------------------------------------- C12
\* C12: within one run of the process the token changes only in the token
\* exchange at the start of a cycle that holds none; a held token is kept
\* by every later step, a failed query included; a failed exchange leaves
\* no token.
C12_LazyTokenOnly ==
    [][ (exit = "running" /\ exit' = "running")
        => /\ access_token => access_token'
           /\ access_token' # access_token => (pc = "auth" /\ pc' = "load")
           /\ (pc = "auth" /\ ~access_token /\ pc' = "ret") => ~access_token'
      ]_vars

\* the second cycle of a run ended by a failed query (nothing loaded was
\* answered, nothing saved) and the token is still held
C12_Witness ==
    /\ exit = "running"
    /\ run_count = 2
    /\ pc = "ret"
    /\ ~clean
    /\ access_token
    /\ response = <<>>
    /\ saved = "none"

\* ---------------------------------------------------------------- C13
\* C13: with the continuous toggle off the process runs one cycle and
\* stops with exit code 0 when the cycle returns, whatever the cycle did
\* (messages, nothing, or a caught error); it never waits and never starts
\* a second cycle.
C13_SinglePass ==
    [][ ~cfg.continuous
        => /\ pc' # "sleep"
           /\ run_count' <= 1
           /\ exit' # "exit1"
           /\ (exit = "running" /\ pc = "ret" /\ pc' = "ret" /\ ~reported')
                 => (exit' = "exit0" \/ exit' = "running")
           /\ (exit = "running" /\ exit' = "exit0" /\ ~reported')
                 => (pc = "ret" /\ run_count = 1)
           /\ (exit = "running" /\ pc = "ret" /\ exit' = "running") => pc' = "ret"
      ]_vars

\* a single-pass run whose only cycle failed in the token exchange has
\* stopped with exit code 0
C13_Witness ==
    /\ ~cfg.continuous
    /\ exit = "exit0"
    /\ ~reported
    /\ pc = "ret"
    /\ run_count = 1
    /\ ~access_token

\* ---------------------------------------------------------------- C14
\* C14: the cursor is written only after every message of the batch has
\* been handed to the forwarder: whenever this cycle's save has succeeded,
\* the whole batch has been attempted.
C14_CursorWriteFollowsProcessing ==
    saved = "ok" => attempts = IdSeq(batch)

\* ---------------------------------------------------------------- C15
\* C15: in a history without faults (every query, load and save succeeded,
\* no interruption), a message returned as new by an earlier cycle is not
\* in the batch of a later cycle.
C15_NoReappearance ==
    clean => IdsOf(batch) \cap returned = {}

\* ---------------------------------------------------------------- C16
\* C16: the batch is walked in the order the server returned it, newest
\* first, and the cursor saved is its first element; on a first run with
\* response [m2, m1] the cursor becomes m2 and m2 is handed over before m1.
C16_NewestFirst ==
    /\ \A k \in 1..Len(batch) : \A j \in 1..Len(batch) :
          k < j => Key(batch[k]) > Key(batch[j])
    /\ Len(attempts) <= Len(batch)
    /\ \A k \in 1..Len(attempts) : attempts[k] = batch[k].id
    /\ saved = "ok"
         => /\ file.st = "valid"
            /\ file.id = batch[1].id
            /\ file.ts = batch[1].ts
            /\ \A k \in 1..Len(batch) : file.ts >= batch[k].ts
    /\ (pc = "ret" /\ exit = "running") => Len(attempts) = Len(batch)

\* first run, two messages of different receipt seconds: the newer one is
\* the cursor and was handed over first
C16_Witness ==
    /\ pc = "ret"
    /\ last.ts = 0
    /\ prevFile.st = "absent"
    /\ saved = "ok"
    /\ Len(batch) = 2
    /\ batch[1].ts > batch[2].ts
    /\ attempts = <<batch[1].id, batch[2].id>>
    /\ file.id = batch[1].id

C18_AttachmentFailureIsolated ==
    net.att = "fail"
      => /\ messages = batch
         /\ i \in 1..Len(messages)
         /\ pc \in {"forward", "mime", "smtp", "process"}
         /\ pc # "forward"
              => (Len(attempts) = i /\ attempts[i] = messages[i].id)

\* the attachment listing of the first of two messages failed; the message
\* was handed over and the loop is back to take the second
C18_Witness ==
    /\ exit = "running"
    /\ pc = "process"
    /\ net.att = "fail"
    /\ Len(messages) = 2
    /\ i = 1
    /\ attempts = <<messages[1].id>>

\* ---------------------------------------------------------------- C19
\* C19: within one forward_message call an SMTP connection is opened only
\* after the MIME fetch succeeded; a failed fetch opens no connection and
\* submits nothing; at most one connection and one submission per call.
C19_FetchPrecedesTransport ==
    /\ (pc = "smtp" \/ net.conns > 0 \/ net.sends > 0 \/ net.smtp # "none")
          => net.fetch = "ok"
    /\ net.fetch = "fail"
          => (net.conns = 0 /\ net.sends = 0 /\ net.smtp = "none" /\ pc # "smtp")
    /\ net.conns <= 1
    /\ net.sends <= net.conns

\* the fetch of a message failed and the call returned without a connection
C19_Witness ==
    /\ pc = "process"
    /\ i >= 1
    /\ net.fetch = "fail"
    /\ net.conns = 0
    /\ messages[i].id \in failed

====
